---- MODULE Spec2Model ----
(***************************************************************************)
(* Ingestion / retrieval core of the Sofia RAG application.                *)
(*                                                                         *)
(*   chunkText            fixed-window chunking with overlap               *)
(*   ingest               chunk -> embedMany -> db.insert, retried         *)
(*   findRelevantContent  cosine-similarity search over the chunk store    *)
(*                                                                         *)
(* Strings are sequences of one-character strings.  JavaScript indices are *)
(* 0-based; SubSeq is 1-based, and the conversion is done in slice.        *)
(***************************************************************************)
EXTENDS Integers, Sequences, FiniteSets, TLC

VARIABLES
    ck,       \* one activation of chunkText: its parameters, locals and position
    calls,    \* one activation of ingest per call: arguments, locals and position
    store,    \* the rows of the embeddings table, in insertion order
    rq,       \* one activation of findRelevantContent
    em,       \* one activation of generateEmbeddings or generateEmbedding
    resources, \* the ids of the rows of the resources table
    lastStmt, \* the last statement a client of the database ran on the tables
    sb,       \* the module variable `supabase` of lib/supabase/client.ts
    acl,      \* conversations and messages under their row-level policies
    loop,     \* one execution of streamText with its tools
    chat,     \* the state of the Chat component of the page
    doc       \* one activation of processDocument and the documents table

\* the variables of chunking, ingest, embedding, retrieval and their tables
coreVars == <<ck, calls, store, rq, em, resources, lastStmt>>

\* the variables of the client handle, the policies, the tool loop, the page
\* and document processing
appVars == <<sb, acl, loop, chat, doc>>

vars == <<ck, calls, store, rq, em, resources, lastStmt, sb, acl, loop, chat, doc>>

\* undefined / null where a string may stand
Undefined == "undefined"
Null == "null"

\* an optional number: <<>> when it is undefined (or null), <<n>> otherwise
NoNumber == <<>>
Number(n) == <<n>>

Min(a, b) == IF a < b THEN a ELSE b
Max(a, b) == IF a > b THEN a ELSE b

(***************************************************************************)
(* Bounds of the model.                                                    *)
(***************************************************************************)
MaxLen == 5          \* longest text handed to chunkText in SpecChunk
MaxSize == 3         \* largest size / overlap parameter tried in SpecChunk

Chars == {"a", "b", " "}
Whitespace == {" ", "\n"}

\* every string over Chars of length 0..n
Strings(n) == UNION {[1..k -> Chars] : k \in 0..n}

(***************************************************************************)
(* String primitives of the JavaScript runtime used by chunkText.          *)
(***************************************************************************)

\* String.prototype.slice(start, end): negative indices count from the end,
\* both are clamped to [0, length], and start >= end yields "".
slice(s, start, end) ==
    LET len == Len(s)
        from == IF start < 0 THEN Max(len + start, 0) ELSE Min(start, len)
        to == IF end < 0 THEN Max(len + end, 0) ELSE Min(end, len)
    IN  IF from >= to THEN <<>> ELSE SubSeq(s, from + 1, to)

RECURSIVE TrimStart(_)
TrimStart(s) ==
    IF s = <<>> \/ Head(s) \notin Whitespace THEN s ELSE TrimStart(Tail(s))

RECURSIVE TrimEnd(_)
TrimEnd(s) ==
    IF s = <<>> \/ s[Len(s)] \notin Whitespace
    THEN s
    ELSE TrimEnd(SubSeq(s, 1, Len(s) - 1))

\* String.prototype.trim()
trim(s) == TrimEnd(TrimStart(s))

\* chunks.filter(Boolean): the empty string is the only falsy string
FilterBoolean(chunks) == SelectSeq(chunks, LAMBDA c : c # <<>>)

(***************************************************************************)
(* chunkText(text, size = 900, overlap = 100)                              *)
(***************************************************************************)
DefaultSize == 900
DefaultOverlap == 100

\* the loop test: while (i < text.length)
LoopTest(text, i) == i < Len(text)

\* a stride that ignores the overlap
StrideNoOverlap(size, overlap) == size

\* i += size - overlap
Stride(size, overlap) == size - overlap

\* a body whose slice ends at size instead of i + size
LoopBodySliceToSize(text, size, overlap, l) ==
    [i |-> l.i + Stride(size, overlap),
     chunks |-> Append(l.chunks, trim(slice(text, l.i, size)))]

\* one pass through the loop body, on the locals l = [i, chunks]
LoopBody(text, size, overlap, l) ==
    [i |-> l.i + Stride(size, overlap),
     chunks |-> Append(l.chunks, trim(slice(text, l.i, l.i + size)))]

\* the whole loop; used only where it terminates (overlap < size)
RECURSIVE ChunkLoop(_, _, _, _)
ChunkLoop(text, size, overlap, l) ==
    IF LoopTest(text, l.i)
    THEN ChunkLoop(text, size, overlap, LoopBody(text, size, overlap, l))
    ELSE l.chunks

chunkText(text, size, overlap) ==
    FilterBoolean(ChunkLoop(text, size, overlap, [i |-> 0, chunks |-> <<>>]))

(***************************************************************************)
(* chunkText as a state machine, one loop iteration per step, so that a    *)
(* loop that never ends is visible.  A call whose loop does not advance is *)
(* cut off after IterCap iterations, more than any advancing loop makes.   *)
(***************************************************************************)
IterCap == MaxLen + 1

ckIdle == [pc |-> "idle", text |-> <<>>, size |-> 0, overlap |-> 0,
           i |-> 0, chunks |-> <<>>, out |-> <<>>]

\* the ids a resource can have
ResourceIds == {"r1", "r2"}

\* no call of the embedding client is made in this behaviour
emUnused == [pc |-> "unused", fn |-> "none", value |-> <<>>, chunks |-> <<>>,
             requests |-> <<>>, response |-> <<>>, result |-> <<>>]

\* a part of the program that takes no step in this behaviour
Unused == [pc |-> "unused"]

AppUnused ==
    /\ sb = Unused
    /\ acl = Unused
    /\ loop = Unused
    /\ chat = Unused
    /\ doc = Unused

\* no statement yet
NoStmt == [cmd |-> "none", table |-> "none", rows |-> 0, cascaded |-> 0]

rqIdle == [pc |-> "idle", fn |-> "none", userId |-> Undefined,
           userQueryEmbedded |-> <<>>, results |-> <<>>, names |-> <<>>,
           round |-> 1, first |-> <<>>, storeBefore |-> <<>>]

InitChunk ==
    /\ \E text \in Strings(MaxLen), size \in 1..MaxSize, overlap \in 0..MaxSize :
          ck = [pc |-> "loop", text |-> text, size |-> size, overlap |-> overlap,
                i |-> 0, chunks |-> <<>>, out |-> <<>>]
    /\ calls = <<>>
    /\ store = <<>>
    /\ rq = rqIdle
    /\ em = emUnused
    /\ resources = ResourceIds
    /\ lastStmt = NoStmt
    /\ AppUnused

ChunkIterate ==
    /\ ck.pc = "loop"
    /\ LoopTest(ck.text, ck.i)
    /\ Len(ck.chunks) < IterCap
    /\ LET l == LoopBody(ck.text, ck.size, ck.overlap,
                         [i |-> ck.i, chunks |-> ck.chunks])
       IN  ck' = [ck EXCEPT !.i = l.i, !.chunks = l.chunks]
    /\ UNCHANGED <<em, resources, lastStmt, calls, store, rq, appVars>>

ChunkReturn ==
    /\ ck.pc = "loop"
    /\ ~LoopTest(ck.text, ck.i)
    /\ ck' = [ck EXCEPT !.pc = "returned", !.out = FilterBoolean(ck.chunks)]
    /\ UNCHANGED <<em, resources, lastStmt, calls, store, rq, appVars>>

NextChunk == ChunkIterate \/ ChunkReturn

SpecChunk == InitChunk /\ [][NextChunk]_vars

(***************************************************************************)
(* Properties of chunkText (checked under SpecChunk).                      *)
(***************************************************************************)
RECURSIVE Concat(_)
Concat(ss) == IF ss = <<>> THEN <<>> ELSE Head(ss) \o Concat(Tail(ss))

DropLast(c, n) == SubSeq(c, 1, Max(Len(c) - n, 0))
KeepFirst(c, n) == SubSeq(c, 1, Min(Len(c), n))

\* every chunk but the last loses its last n characters
ReassembleDropLast(chunks, n) ==
    Concat([k \in 1..Len(chunks) |->
              IF k < Len(chunks) THEN DropLast(chunks[k], n) ELSE chunks[k]])

\* every chunk but the last keeps its first n characters
ReassembleKeepFirst(chunks, n) ==
    Concat([k \in 1..Len(chunks) |->
              IF k < Len(chunks) THEN KeepFirst(chunks[k], n) ELSE chunks[k]])

\* the offsets at which the loop cuts a window, for overlap < size
WindowStarts(text, size, overlap) ==
    {i \in 0..Len(text) : i < Len(text) /\ i % (size - overlap) = 0}

\* trim() changes no window of the text
NoWindowTrimmed(text, size, overlap) ==
    \A i \in WindowStarts(text, size, overlap) :
        trim(slice(text, i, i + size)) = slice(text, i, i + size)

ckReturnedValid == ck.pc = "returned" /\ ck.overlap < ck.size

\* C7 (as claimed): with overlap >= size chunkText is rejected before its loop
\* body runs, and no call iterates more often than the text has characters.
C7_FailsFast ==
    /\ (ck.pc # "idle" /\ ck.overlap >= ck.size) => Len(ck.chunks) = 0
    /\ Len(ck.chunks) <= Len(ck.text)

\* C9 (as claimed): for 0 <= overlap < size, dropping the last `overlap`
\* characters of every chunk but the last and concatenating gives the text.
C9_ReassembleDropLast ==
    ckReturnedValid => ReassembleDropLast(ck.out, ck.overlap) = ck.text

\* C9 (amended): for 0 <= overlap < size and a text none of whose windows is
\* changed by trim, keeping the first size - overlap characters of every chunk
\* but the last (dropping the part the next chunk repeats) gives the text.
C9_ReassembleKeepStride ==
    (ckReturnedValid /\ NoWindowTrimmed(ck.text, ck.size, ck.overlap))
        => ReassembleKeepFirst(ck.out, ck.size - ck.overlap) = ck.text

\* a returned call with overlap whose chunk before the last is already short
C9_Witness ==
    /\ ckReturnedValid
    /\ NoWindowTrimmed(ck.text, ck.size, ck.overlap)
    /\ ck.overlap >= 1
    /\ Len(ck.out) >= 3
    /\ Len(ck.out[Len(ck.out) - 1]) < ck.size
    /\ "b" \in {ck.text[j] : j \in 1..Len(ck.text)}

\* C10 (as claimed): for 0 <= overlap < size, chunk k begins (k - 1) *
\* (size - overlap) characters into the text and only the last chunk is
\* shorter than size.
C10_StrideOnlyLastShort ==
    ckReturnedValid =>
        \A k \in 1..Len(ck.out) :
            LET off == (k - 1) * (ck.size - ck.overlap)
            IN  /\ ck.out[k] = slice(ck.text, off, off + Len(ck.out[k]))
                /\ k < Len(ck.out) => Len(ck.out[k]) = ck.size

\* C10 (amended): for 0 <= overlap < size and a text none of whose windows is
\* changed by trim, chunk k is the window of the text that begins (k - 1) *
\* (size - overlap) characters in and is size long or ends with the text:
\* a chunk is shorter than size only when fewer than size characters follow
\* its start, and there is one chunk per window.
C10_WindowPerStride ==
    (ckReturnedValid /\ NoWindowTrimmed(ck.text, ck.size, ck.overlap)) =>
        /\ Len(ck.out) = Cardinality(WindowStarts(ck.text, ck.size, ck.overlap))
        /\ \A k \in 1..Len(ck.out) :
              LET off == (k - 1) * (ck.size - ck.overlap)
              IN  /\ ck.out[k] = slice(ck.text, off, off + ck.size)
                  /\ Len(ck.out[k]) = Min(ck.size, Len(ck.text) - off)

\* a returned call whose last two chunks are both shorter than size
C10_Witness ==
    /\ ckReturnedValid
    /\ NoWindowTrimmed(ck.text, ck.size, ck.overlap)
    /\ Len(ck.out) >= 4
    /\ Len(ck.out[Len(ck.out)]) < Len(ck.out[Len(ck.out) - 1])
    /\ Len(ck.out[Len(ck.out) - 1]) < ck.size
    /\ ck.out[1] # ck.out[2]

\* the smallest integer that is at least n / d
CeilDiv(n, d) == (n + d - 1) \div d

\* no window of the text consists of whitespace only
NoWindowBlank(text, size, overlap) ==
    \A i \in WindowStarts(text, size, overlap) :
        trim(slice(text, i, i + size)) # <<>>

\* C12: for a text of length L >= 1 and 0 <= overlap < size, chunkText returns
\* exactly ceil(L / (size - overlap)) chunks when no window is whitespace
\* only, and never more than that for any text.
C12_ChunkCount ==
    (ckReturnedValid /\ Len(ck.text) >= 1) =>
        /\ Len(ck.out) <= CeilDiv(Len(ck.text), ck.size - ck.overlap)
        /\ NoWindowBlank(ck.text, ck.size, ck.overlap) =>
               Len(ck.out) = CeilDiv(Len(ck.text), ck.size - ck.overlap)

\* a returned call with overlapping windows, one of them shortened by trim(),
\* none of them blank
C12_Witness ==
    /\ ckReturnedValid
    /\ ck.overlap >= 1
    /\ Len(ck.text) = MaxLen
    /\ NoWindowBlank(ck.text, ck.size, ck.overlap)
    /\ ~NoWindowTrimmed(ck.text, ck.size, ck.overlap)
    /\ Len(ck.out) = CeilDiv(Len(ck.text), ck.size - ck.overlap)
    /\ Len(ck.out) >= 3

(***************************************************************************)
(* The embedding service and the embeddings table.                         *)
(***************************************************************************)

\* embedding vectors the service can return (three components stand for the
\* model's fixed dimensionality)
Vectors == {<<0, 1, 3>>, <<0, 2, 6>>, <<1, 3, 0>>, <<3, 1, 0>>}

VectorList == <<<<0, 1, 3>>, <<1, 3, 0>>, <<3, 1, 0>>, <<0, 2, 6>>>>

ModelSeeds == {0, 1}

\* what a successful embedMany(chunks) can resolve to: one vector per chunk
\* the number of components of the embedding column (3 stands for 1536)
Dimensions == 3

\* a vector of another length
WrongVector == <<0, 1>>

\* the responses of embedMany to the given values: one vector per value, in
\* the order of the values; the vector of a single value may come with
\* another length
EmbedResponses(chunks) ==
    {[k \in 1..Len(chunks) |-> VectorList[((k + seed) % Len(VectorList)) + 1]] :
        seed \in ModelSeeds}
    \cup
    (IF Len(chunks) = 1 THEN {<<WrongVector>>} ELSE {})

\* every embedding of the response has the length of the column
HasDimensions(vs) == \A k \in 1..Len(vs) : Len(vs[k]) = Dimensions

\* the checks of an INSERT into embeddings: the vector(1536) column takes
\* vectors of its own length only, and resource_id must be the id of a row
\* of resources
InsertAccepted(recs, res) ==
    \A k \in 1..Len(recs) :
        /\ Len(recs[k].embedding) = Dimensions
        /\ recs[k].resourceId \in res

\* a failed INSERT that leaves the rows written before the failure in place
DbInsertFailedKeepsRows(rows, recs, k) == rows \o SubSeq(recs, 1, k)

\* the table after a multi-row INSERT statement failed once k of its rows had
\* been written: the statement is undone as a whole
DbInsertFailed(rows, recs, k) == rows

\* the table after a multi-row INSERT statement committed
DbInsertCommitted(rows, recs) == rows \o recs

(***************************************************************************)
(* ingest({resourceId, text, title, order, sourceUrl})                     *)
(***************************************************************************)
maxAttempts == 3
baseDelayMs == 1000

NumCalls == 1        \* ingest calls that may be in flight together

Calls == 1..NumCalls

LongText ==
    [i \in 1..(4 * (DefaultSize - DefaultOverlap) + 1) |->
        IF i % (DefaultSize - DefaultOverlap + 1) = 1 THEN "b" ELSE "a"]

\* the arguments tried: a text of five chunks, of one chunk, a blank text, an
\* empty one, and a text of one chunk with a starting order
IngestInputs ==
    {[resourceId |-> "r1", text |-> LongText, title |-> "guide",
      order |-> Number(0), sourceUrl |-> Undefined],
     [resourceId |-> "r1", text |-> <<"a", " ", "b">>, title |-> Undefined,
      order |-> NoNumber, sourceUrl |-> "http://s"],
     [resourceId |-> "r2", text |-> <<" ", " ">>, title |-> Undefined,
      order |-> Number(3), sourceUrl |-> Undefined],
     [resourceId |-> "r2", text |-> <<>>, title |-> "",
      order |-> NoNumber, sourceUrl |-> Undefined],
     [resourceId |-> "r2", text |-> <<"b">>, title |-> Undefined,
      order |-> Number(3), sourceUrl |-> Undefined]}

\* the message of the Error thrown on the last attempt (accent dropped)
ExhaustedError == "Falha ao inserir embeddings apos 3 tentativas"

RECURSIVE Pow2(_)
Pow2(n) == IF n <= 0 THEN 1 ELSE 2 * Pow2(n - 1)

\* x || null for a string or undefined x
OrNull(x) == IF x = Undefined \/ x = "" THEN Null ELSE x

\* records whose order is null also when the starting order is 0
BuildRecordsTruthyOrder(c, a) ==
    [k \in 1..Len(a.chunks) |->
        [id |-> <<c, a.attempt, k>>,
         resourceId |-> a.resourceId,
         content |-> a.chunks[k],
         embedding |-> a.vectors[k],
         title |-> OrNull(a.title),
         order |-> IF a.order # NoNumber /\ a.order # Number(0)
                   THEN Number(a.order[1] + (k - 1))
                   ELSE NoNumber,
         sourceUrl |-> OrNull(a.sourceUrl)]]

\* records in which each chunk gets the vector of its successor
BuildRecordsShifted(c, a) ==
    [k \in 1..Len(a.chunks) |->
        [id |-> <<c, a.attempt, k>>,
         resourceId |-> a.resourceId,
         content |-> a.chunks[k],
         embedding |-> a.vectors[(k % Len(a.chunks)) + 1],
         title |-> OrNull(a.title),
         order |-> IF a.order # NoNumber
                   THEN Number(a.order[1] + (k - 1))
                   ELSE NoNumber,
         sourceUrl |-> OrNull(a.sourceUrl)]]

\* chunks.map((content, idx) => ({...})): the record of each chunk.  nanoid()
\* is a fresh id, here the triple (call, attempt, position).
BuildRecords(c, a) ==
    [k \in 1..Len(a.chunks) |->
        [id |-> <<c, a.attempt, k>>,
         resourceId |-> a.resourceId,
         content |-> a.chunks[k],
         embedding |-> a.vectors[k],
         title |-> OrNull(a.title),
         order |-> IF a.order # NoNumber
                   THEN Number(a.order[1] + (k - 1))
                   ELSE NoNumber,
         sourceUrl |-> OrNull(a.sourceUrl)]]

\* a test that lets the last failed attempt fall through to the backoff
IsLastAttemptOffByOne(attempt) == attempt > maxAttempts

\* if (attempt === maxAttempts)
IsLastAttempt(attempt) == attempt = maxAttempts

\* a delay whose exponent is the attempt number itself
BackoffDelayExponentAttempt(attempt) == baseDelayMs * Pow2(attempt)

\* const delay = baseDelayMs * Math.pow(2, attempt - 1)
BackoffDelay(attempt) == baseDelayMs * Pow2(attempt - 1)

\* the catch block, entered with the activation a of a failed attempt
Catch(a) ==
    IF IsLastAttempt(a.attempt)
    THEN [a EXCEPT !.pc = "thrown", !.error = ExhaustedError,
                   !.failures = @ + 1]
    ELSE [a EXCEPT !.pc = "backoff", !.failures = @ + 1,
                   !.delays = Append(@, BackoffDelay(a.attempt))]

\* what the call has returned: nothing yet, the success object, or undefined
NoResult == [kind |-> "none", success |-> FALSE, chunksInserted |-> 0]
UndefinedResult == [kind |-> "undefined", success |-> FALSE, chunksInserted |-> 0]

\* return { success: true, chunksInserted: chunks.length }
SuccessResult(chunks) ==
    [kind |-> "object", success |-> TRUE, chunksInserted |-> Len(chunks)]

callIdle ==
    [pc |-> "idle", resourceId |-> Null, title |-> Undefined,
     order |-> NoNumber, sourceUrl |-> Undefined,
     chunks |-> <<>>, attempt |-> 0, vectors |-> <<>>,
     result |-> NoResult, error |-> Null,
     embedRequests |-> 0, insertRequests |-> 0, failures |-> 0,
     insertFailures |-> 0, failedAfter |-> -1, delays |-> <<>>,
     wrongDimension |-> FALSE]

Init ==
    /\ ck = ckIdle
    /\ calls = [c \in Calls |-> callIdle]
    /\ store = <<>>
    /\ rq = rqIdle
    /\ em = emUnused
    /\ resources = ResourceIds
    /\ lastStmt = NoStmt
    /\ AppUnused

\* ingest is called: the text is chunked, the loop starts its first attempt
\* and sends the embedMany request
IngestCallWith(c, inputs) ==
    /\ calls[c].pc = "idle"
    /\ \E in \in inputs :
          calls' = [calls EXCEPT ![c] =
              [@ EXCEPT !.pc = "embedMany",
                        !.resourceId = in.resourceId,
                        !.title = in.title,
                        !.order = in.order,
                        !.sourceUrl = in.sourceUrl,
                        !.chunks = chunkText(in.text, DefaultSize, DefaultOverlap),
                        !.attempt = 1,
                        !.embedRequests = 1]]
    /\ UNCHANGED <<em, resources, lastStmt, ck, store, rq, appVars>>

IngestCall(c) == IngestCallWith(c, IngestInputs)

\* await embedMany(chunks) resolves; the records are built and the INSERT is
\* sent
EmbedResolves(c) ==
    /\ calls[c].pc = "embedMany"
    /\ \E vs \in EmbedResponses(calls[c].chunks) :
          calls' = [calls EXCEPT ![c] =
              [@ EXCEPT !.pc = "insert", !.vectors = vs,
                        !.insertRequests = @ + 1,
                        !.wrongDimension = @ \/ ~HasDimensions(vs)]]
    /\ UNCHANGED <<em, resources, lastStmt, ck, store, rq, appVars>>

\* await embedMany(chunks) rejects
EmbedRejects(c) ==
    /\ calls[c].pc = "embedMany"
    /\ calls' = [calls EXCEPT ![c] = Catch(@)]
    /\ UNCHANGED <<em, resources, lastStmt, ck, store, rq, appVars>>

\* await db.insert(embeddings).values(...) resolves; ingest returns
InsertResolves(c) ==
    /\ calls[c].pc = "insert"
    /\ InsertAccepted(BuildRecords(c, calls[c]), resources)
    /\ store' = DbInsertCommitted(store, BuildRecords(c, calls[c]))
    /\ calls' = [calls EXCEPT ![c] =
          [@ EXCEPT !.pc = "returned",
                    !.result = SuccessResult(calls[c].chunks)]]
    /\ UNCHANGED <<em, resources, lastStmt, ck, rq, appVars>>

\* await db.insert(embeddings).values(...) rejects, the statement having
\* failed after k of its rows
InsertRejects(c) ==
    /\ calls[c].pc = "insert"
    /\ \E k \in 0..Max(Len(calls[c].chunks) - 1, 0) :
          /\ store' = DbInsertFailed(store, BuildRecords(c, calls[c]), k)
          /\ calls' = [calls EXCEPT ![c] =
                [Catch(@) EXCEPT !.insertFailures = @ + 1, !.failedAfter = k]]
    /\ UNCHANGED <<em, resources, lastStmt, ck, rq, appVars>>

\* the setTimeout of the backoff fires: attempt++, and the loop either sends
\* the next embedMany request or ends
BackoffElapses(c) ==
    /\ calls[c].pc = "backoff"
    /\ calls' = [calls EXCEPT ![c] =
          IF @.attempt + 1 <= maxAttempts
          THEN [@ EXCEPT !.pc = "embedMany", !.attempt = @ + 1,
                         !.embedRequests = @ + 1]
          ELSE [@ EXCEPT !.pc = "returned", !.attempt = @ + 1,
                         !.result = UndefinedResult]]
    /\ UNCHANGED <<em, resources, lastStmt, ck, store, rq, appVars>>

Next ==
    \E c \in Calls :
        \/ IngestCall(c)
        \/ EmbedResolves(c)
        \/ EmbedRejects(c)
        \/ InsertResolves(c)
        \/ InsertRejects(c)
        \/ BackoffElapses(c)

Spec == Init /\ [][Next]_vars

(***************************************************************************)
(* Properties of ingest (checked under Spec).                              *)
(***************************************************************************)

\* the rows a call has left in the table, in insertion order
RowsOf(c) == SelectSeq(store, LAMBDA r : r.id[1] = c)

Ended(c) == calls[c].pc \in {"returned", "thrown"}

\* the rows are one complete set: chunk k of the call at position k, all
\* built by the same attempt
CompleteSet(c, rows) ==
    /\ Len(rows) = Len(calls[c].chunks)
    /\ \A k \in 1..Len(rows) :
          /\ rows[k].content = calls[c].chunks[k]
          /\ rows[k].id[3] = k
          /\ rows[k].id[2] = rows[1].id[2]

\* C1: once an ingest call has ended, by returning or by throwing, either all
\* of its chunk records are in the table or none is; a call that threw has
\* left none, also when its INSERT failed after some rows.
C1_AllOrNothing ==
    \A c \in Calls :
        Ended(c) =>
            /\ RowsOf(c) = <<>> \/ CompleteSet(c, RowsOf(c))
            /\ calls[c].pc = "thrown" => RowsOf(c) = <<>>

\* the INSERT of a five-chunk call failed after two rows and the call threw
C1_Witness ==
    \E c \in Calls :
        /\ calls[c].pc = "thrown"
        /\ Len(calls[c].chunks) = 5
        /\ calls[c].failedAfter = 2

\* C2: ingest makes at most maxAttempts = 3 attempts, starts an attempt only
\* after the one before it failed, and after the third failure throws the
\* "failed after 3 attempts" error without ever returning success.
C2_AtMostThreeAttempts ==
    \A c \in Calls :
        LET a == calls[c]
        IN  /\ a.attempt <= maxAttempts
            /\ a.embedRequests <= maxAttempts
            /\ a.insertRequests <= a.embedRequests
            /\ a.pc \in {"embedMany", "insert", "returned"}
                  => a.embedRequests = a.failures + 1
            /\ a.pc \in {"backoff", "thrown"} => a.embedRequests = a.failures
            /\ a.failures >= maxAttempts => a.pc = "thrown"
            /\ a.pc = "thrown"
                  => /\ a.failures = maxAttempts
                     /\ a.error = ExhaustedError
                     /\ a.result = NoResult
            /\ a.pc = "returned" => a.failures < maxAttempts /\ a.result.success

\* three attempts were made, the third failed too, and the call threw
C2_Witness ==
    \E c \in Calls :
        /\ calls[c].pc = "thrown"
        /\ calls[c].embedRequests = 3
        /\ calls[c].failures = 3

\* C3: a call that returns, after any number of failed attempts, returns
\* {success: true, chunksInserted: n} for its n chunks, and the table holds
\* each of the n chunks of the call exactly once.
C3_SuccessAfterRetries ==
    \A c \in Calls :
        calls[c].pc = "returned" =>
            /\ calls[c].result = SuccessResult(calls[c].chunks)
            /\ calls[c].result.chunksInserted = Len(calls[c].chunks)
            /\ CompleteSet(c, RowsOf(c))

\* embedMany failed on attempts 1 and 2, attempt 3 succeeded, five chunks
C3_Witness ==
    \E c \in Calls :
        /\ calls[c].pc = "returned"
        /\ calls[c].failures = 2
        /\ calls[c].insertFailures = 0
        /\ calls[c].attempt = 3
        /\ Len(calls[c].chunks) = 5

\* C4 (as claimed): once a db.insert of a call has failed, the call sends no
\* further embedMany request and no further INSERT.
C4_StorageFailureNotRetried ==
    [][\A c \in Calls :
          calls[c].insertFailures >= 1 =>
              /\ calls'[c].embedRequests = calls[c].embedRequests
              /\ calls'[c].insertRequests = calls[c].insertRequests]_vars

\* C8 (as claimed): a call whose text yields no chunk makes no embedding
\* request, writes no row, never returns success and fails with "empty input".
C8_EmptyInputRejected ==
    \A c \in Calls :
        (calls[c].pc # "idle" /\ calls[c].chunks = <<>>) =>
            /\ calls[c].embedRequests = 0
            /\ calls[c].insertRequests = 0
            /\ RowsOf(c) = <<>>
            /\ ~calls[c].result.success
            /\ Ended(c) => calls[c].error = "empty input"

\* C15 (as claimed): when embedMany has returned a vector that does not have
\* the length of the column, the ingest call writes no row, and every stored
\* embedding has that length.
C15_WrongDimensionWritesNothing ==
    /\ \A c \in Calls : calls[c].wrongDimension => RowsOf(c) = <<>>
    /\ \A k \in 1..Len(store) : Len(store[k].embedding) = Dimensions

\* C15, the stored rows alone: every stored embedding has the length of the
\* column.  Holds.
C15_StoredDimension ==
    \A k \in 1..Len(store) : Len(store[k].embedding) = Dimensions

\* C22: the records of one ingest call carry order = start + idx for the
\* record at 0-based position idx when a starting order was passed, also
\* when it is 0, and order = null in every record when none was passed.
C22_SequentialOrder ==
    \A c \in Calls :
        LET rows == RowsOf(c)
        IN  \A k \in 1..Len(rows) :
                IF calls[c].order = NoNumber
                THEN rows[k].order = NoNumber
                ELSE rows[k].order = <<calls[c].order[1] + k - 1>>

\* five records written with the starting order 0
C22_Witness ==
    \E c \in Calls :
        /\ calls[c].order = Number(0)
        /\ Len(RowsOf(c)) = 5
        /\ RowsOf(c)[5].order = Number(4)

\* C20: after failed attempt k of a call (k = 1, 2) ingest waits
\* 1000 * 2^(k-1) ms, that is 1000 ms and then 2000 ms, before the next
\* attempt; it does not wait after the final failed attempt or after success.
C20_BackoffSchedule ==
    \A c \in Calls :
        LET a == calls[c]
        IN  /\ a.delays \in {<<>>, <<1000>>, <<1000, 2000>>}
            /\ Len(a.delays) = Min(a.failures, 2)
            /\ a.pc = "backoff" => a.failures = a.attempt /\ a.attempt \in {1, 2}
            /\ a.pc = "embedMany" => Len(a.delays) = a.attempt - 1
            /\ a.result.success => Len(a.delays) = a.attempt - 1

\* a call that waited twice and then failed for good, and one that waited
\* once and then succeeded
C20_Witness ==
    \E c \in Calls :
        \/ calls[c].pc = "thrown" /\ calls[c].delays = <<1000, 2000>>
                                  /\ calls[c].insertFailures = 1
        \/ calls[c].result.success /\ calls[c].delays = <<1000>>
                                   /\ calls[c].failures = 1

(***************************************************************************)
(* The embedding client: generateChunks, generateEmbeddings(value) and     *)
(* generateEmbedding(value).                                               *)
(***************************************************************************)
MaxValueLen == 4     \* longest value handed to the embedding client

EmbedChars == {"a", ".", " ", "\n"}

\* every string over EmbedChars of length 0..MaxValueLen
Values == UNION {[1..k -> EmbedChars] : k \in 0..MaxValueLen}

\* String.prototype.split(sep) for a one-character separator: the pieces
\* between the separators, empty pieces included; "" gives [""]
RECURSIVE split(_, _)
split(s, sep) ==
    IF \E i \in 1..Len(s) : s[i] = sep
    THEN LET i == CHOOSE x \in 1..Len(s) :
                      s[x] = sep /\ \A y \in 1..(x - 1) : s[y] # sep
         IN  <<SubSeq(s, 1, i - 1)>> \o split(SubSeq(s, i + 1, Len(s)), sep)
    ELSE <<s>>

\* input.trim().split(".").filter((i) => i !== "")
generateChunks(input) ==
    SelectSeq(split(trim(input), "."), LAMBDA i : i # <<>>)

\* String.prototype.replace with a string pattern: the first match only
replaceFirstOnly(s, from, to) ==
    [i \in 1..Len(s) |->
        IF s[i] = from /\ \A j \in 1..(i - 1) : s[j] # from THEN to ELSE s[i]]

\* String.prototype.replaceAll(from, to) for one-character strings
replaceAll(s, from, to) ==
    [i \in 1..Len(s) |-> IF s[i] = from THEN to ELSE s[i]]

\* a request sent to the embedding model
EmbedManyRequest(values) == [kind |-> "embedMany", values |-> values]
EmbedRequest(value) == [kind |-> "embed", values |-> <<value>>]

\* embeddings.map((e, i) => ({ content: chunks[i], embedding: e }))
PairWithChunks(embeddings, chunks) ==
    [i \in 1..Len(embeddings) |->
        [content |-> chunks[i], embedding |-> embeddings[i]]]

emIdle == [emUnused EXCEPT !.pc = "idle"]

\* an ingest activation that is never called in this behaviour
callUnused == [callIdle EXCEPT !.pc = "unused"]

InitEmbed ==
    /\ ck = ckIdle
    /\ calls = [c \in Calls |-> callUnused]
    /\ store = <<>>
    /\ rq = rqIdle
    /\ em = emIdle
    /\ resources = ResourceIds
    /\ lastStmt = NoStmt
    /\ AppUnused

\* generateEmbeddings(value) is called: the value is split into chunks and
\* the embedMany request is sent
GenerateEmbeddingsCall ==
    /\ em.pc = "idle"
    /\ \E value \in Values :
          LET chunks == generateChunks(value)
          IN  em' = [em EXCEPT !.pc = "embedMany", !.fn = "generateEmbeddings",
                               !.value = value, !.chunks = chunks,
                               !.requests = Append(@, EmbedManyRequest(chunks))]
    /\ UNCHANGED <<ck, calls, store, rq, resources, lastStmt, appVars>>

\* await embedMany(...) resolves; the pairs are returned
EmbedManyResolves ==
    /\ em.pc = "embedMany"
    /\ \E embeddings \in EmbedResponses(em.chunks) :
          em' = [em EXCEPT !.pc = "returned", !.response = embeddings,
                           !.result = PairWithChunks(embeddings, em.chunks)]
    /\ UNCHANGED <<ck, calls, store, rq, resources, lastStmt, appVars>>

\* await embedMany(...) rejects; generateEmbeddings rejects
EmbedManyRejects ==
    /\ em.pc = "embedMany"
    /\ em' = [em EXCEPT !.pc = "thrown"]
    /\ UNCHANGED <<ck, calls, store, rq, resources, lastStmt, appVars>>

\* generateEmbedding(value) is called: newlines are replaced and the embed
\* request is sent
GenerateEmbeddingCall ==
    /\ em.pc = "idle"
    /\ \E value \in Values :
          LET input == replaceAll(value, "\n", " ")
          IN  em' = [em EXCEPT !.pc = "embed", !.fn = "generateEmbedding",
                               !.value = value,
                               !.requests = Append(@, EmbedRequest(input))]
    /\ UNCHANGED <<ck, calls, store, rq, resources, lastStmt, appVars>>

\* await embed(...) resolves; its embedding is returned
EmbedValueResolves ==
    /\ em.pc = "embed"
    /\ \E embedding \in Vectors :
          em' = [em EXCEPT !.pc = "returned", !.response = <<embedding>>,
                           !.result = embedding]
    /\ UNCHANGED <<ck, calls, store, rq, resources, lastStmt, appVars>>

\* await embed(...) rejects; generateEmbedding rejects
EmbedValueRejects ==
    /\ em.pc = "embed"
    /\ em' = [em EXCEPT !.pc = "thrown"]
    /\ UNCHANGED <<ck, calls, store, rq, resources, lastStmt, appVars>>

NextEmbed ==
    \/ GenerateEmbeddingsCall
    \/ EmbedManyResolves
    \/ EmbedManyRejects
    \/ GenerateEmbeddingCall
    \/ EmbedValueResolves
    \/ EmbedValueRejects

SpecEmbed == InitEmbed /\ [][NextEmbed]_vars

\* ingest or the embedding client, whichever the behaviour starts with
SpecPipeline == (Init \/ InitEmbed) /\ [][Next \/ NextEmbed]_vars

(***************************************************************************)
(* Properties of the embedding client (SpecEmbed, SpecPipeline).           *)
(***************************************************************************)

\* C14: generateEmbedding sends the model its input with every newline
\* replaced by a space and no other character changed, in exactly one embed
\* request per call, and returns the vector of that request.
C14_SingleEmbedding ==
    (em.fn = "generateEmbedding") =>
        /\ Len(em.requests) = 1
        /\ em.requests[1].kind = "embed"
        /\ LET sent == em.requests[1].values[1]
           IN  /\ Len(em.requests[1].values) = 1
               /\ Len(sent) = Len(em.value)
               /\ \A i \in 1..Len(sent) :
                     sent[i] = (IF em.value[i] = "\n" THEN " " ELSE em.value[i])
        /\ em.pc = "returned" => em.result = em.response[1]

\* a value with two newlines was embedded and its vector returned
C14_Witness ==
    /\ em.fn = "generateEmbedding"
    /\ em.pc = "returned"
    /\ Cardinality({i \in 1..Len(em.value) : em.value[i] = "\n"}) = 2
    /\ \E i \in 1..Len(em.value) : em.value[i] = "."
    /\ em.result \in Vectors

\* C13: the k-th record an ingest call writes pairs the content of its k-th
\* chunk with the k-th vector of the embedMany response, and the k-th pair
\* generateEmbeddings returns pairs the k-th chunk of its request with the
\* k-th vector of the response, for every k.
C13_OrderPreserved ==
    /\ \A c \in Calls :
          calls[c].pc = "returned" =>
              LET rows == RowsOf(c)
              IN  /\ Len(rows) = Len(calls[c].chunks)
                  /\ Len(rows) = Len(calls[c].vectors)
                  /\ \A k \in 1..Len(rows) :
                        /\ rows[k].content = calls[c].chunks[k]
                        /\ rows[k].embedding = calls[c].vectors[k]
    /\ (em.pc = "returned" /\ em.fn = "generateEmbeddings") =>
          /\ em.requests = <<EmbedManyRequest(generateChunks(em.value))>>
          /\ Len(em.result) = Len(em.requests[1].values)
          /\ \A k \in 1..Len(em.result) :
                /\ em.result[k].content = em.requests[1].values[k]
                /\ em.result[k].embedding = em.response[k]

\* an ingest call wrote five records whose chunks and vectors are not all
\* the same
C13_Witness ==
    \E c \in Calls :
        /\ calls[c].pc = "returned"
        /\ Len(RowsOf(c)) = 5
        /\ RowsOf(c)[1].content # RowsOf(c)[2].content
        /\ RowsOf(c)[1].embedding # RowsOf(c)[2].embedding
        /\ RowsOf(c)[2].embedding = calls[c].vectors[2]

\* C11 (as claimed): no chunk handed to the embedding model is empty or
\* consists of whitespace only, neither by generateEmbeddings (generateChunks)
\* nor by ingest (chunkText).
C11_NoBlankChunk ==
    /\ \A n \in 1..Len(em.requests) :
          em.requests[n].kind = "embedMany" =>
              \A k \in 1..Len(em.requests[n].values) :
                  trim(em.requests[n].values[k]) # <<>>
    /\ \A c \in Calls :
          \A k \in 1..Len(calls[c].chunks) : trim(calls[c].chunks[k]) # <<>>

\* C11, chunkText alone: no chunk of an ingest call is blank.  Holds.
C11_ChunkTextOnly ==
    \A c \in Calls :
        \A k \in 1..Len(calls[c].chunks) : trim(calls[c].chunks[k]) # <<>>

(***************************************************************************)
(* Retrieval: findRelevantContent(userQuery), its per-user variant, and    *)
(* the retrieve tool of the chat route.                                    *)
(*                                                                         *)
(* cos(a, q) = dot / sqrt(nn) is kept exactly as the pair [dot, nn]; every *)
(* comparison is done on integers.  The vectors of the model are non-zero. *)
(***************************************************************************)
MaxRows == 5         \* most rows in the table in SpecRetrieve

Dot(a, b) == a[1] * b[1] + a[2] * b[2] + a[3] * b[3]
Norm2(a) == Dot(a, a)

\* 1 - cosineDistance(a, q), cosineDistance being 1 - cos(a, q)
Similarity(a, q) == [dot |-> Dot(a, q), nn |-> Norm2(a) * Norm2(q)]

\* sign(dot) * dot^2, which orders similarities of equal nn as cos does
SignedSquare(s) == IF s.dot >= 0 THEN s.dot * s.dot ELSE -(s.dot * s.dot)

\* s1 < s2 and s1 = s2 as real numbers
SimLess(s1, s2) == SignedSquare(s1) * s2.nn < SignedSquare(s2) * s1.nn
SimEqual(s1, s2) == SignedSquare(s1) * s2.nn = SignedSquare(s2) * s1.nn

\* s > num / den, for num >= 0 and den > 0
SimGreater(s, num, den) ==
    s.dot > 0 /\ den * den * s.dot * s.dot > num * num * s.nn

\* s >= num / den
SimGreaterOrEqual(s, num, den) ==
    s.dot >= 0 /\ den * den * s.dot * s.dot >= num * num * s.nn

\* the threshold 0.3 and the limit 4 of findRelevantContent
ThresholdNum == 3
ThresholdDen == 10
Limit == 4

\* the limit 5 and the distance bound 0.3 (similarity 0.7) of retrieve
RetrieveLimit == 5
RetrieveSimNum == 7

\* a threshold test that also lets the threshold itself through
AboveThresholdOrEqual(s) == SimGreaterOrEqual(s, ThresholdNum, ThresholdDen)

\* gt(similarity, 0.3)
AboveThreshold(s) == SimGreater(s, ThresholdNum, ThresholdDen)

\* desc(similarity): row k comes before row j.  SQL leaves the order of rows
\* of equal similarity open; tie says which way the engine resolves it.
RanksBefore(rows, q, tie, k, j) ==
    LET sk == Similarity(rows[k].embedding, q)
        sj == Similarity(rows[j].embedding, q)
    IN  \/ SimLess(sj, sk)
        \/ SimEqual(sk, sj) /\ (IF tie = "first" THEN k < j ELSE k > j)

TieOrders == {"first", "last"}

\* ORDER BY over the rows at the positions S
RECURSIVE OrderBy(_, _, _, _)
OrderBy(rows, q, tie, S) ==
    IF S = {}
    THEN <<>>
    ELSE LET k == CHOOSE x \in S :
                     \A y \in S \ {x} : RanksBefore(rows, q, tie, x, y)
         IN  <<k>> \o OrderBy(rows, q, tie, S \ {k})

\* LIMIT n
Take(seq, n) == SubSeq(seq, 1, Min(n, Len(seq)))

\* select {name: content, similarity} from embeddings
\*   where [user_id = userId and] similarity > 0.3
\*   order by similarity desc limit 4
\* userId = Undefined stands for the variant without the user filter
SelectRelevant(rows, q, userId, tie) ==
    LET S == {k \in 1..Len(rows) :
                 /\ userId # Undefined => rows[k].userId = userId
                 /\ AboveThreshold(Similarity(rows[k].embedding, q))}
        ks == Take(OrderBy(rows, q, tie, S), Limit)
    IN  [n \in 1..Len(ks) |->
            [name |-> rows[ks[n]].content,
             similarity |-> Similarity(rows[ks[n]].embedding, q)]]

\* db.select().from(embeddings).orderBy(embedding <=> q).limit(5): whole rows,
\* nearest first; the rows carry the columns of the table and nothing else
SelectNearest(rows, q, tie) ==
    LET ks == Take(OrderBy(rows, q, tie, 1..Len(rows)), RetrieveLimit)
    IN  [n \in 1..Len(ks) |-> rows[ks[n]]]

\* results.filter((r) => r.distance < 0.3): a row without the property
\* distance gives undefined < 0.3, which is false
FilterByDistance(results) ==
    SelectSeq(results,
              LAMBDA r : /\ "distance" \in DOMAIN r
                         /\ SimGreater(r.distance, RetrieveSimNum, ThresholdDen))

\* the rows a table can hold: row k has a content of its own, one of the
\* vectors, and belongs to one of two users
UserOf(k) == IF k % 2 = 1 THEN "u1" ELSE "u2"

TableRow(k, v) ==
    [id |-> <<0, 1, k>>, resourceId |-> "r1", userId |-> UserOf(k),
     content |-> [i \in 1..k |-> "a"], embedding |-> v,
     title |-> Null, order |-> Number(k - 1), sourceUrl |-> Null]

Tables ==
    UNION {{[k \in 1..n |-> TableRow(k, vs[k])] : vs \in [1..n -> Vectors]} :
              n \in 0..MaxRows}

QueryVectors == {<<0, 1, 3>>, <<1, 3, 0>>}

InitRetrieve ==
    /\ ck = ckIdle
    /\ calls = <<>>
    /\ store \in Tables
    /\ rq = rqIdle
    /\ em = emUnused
    /\ resources = ResourceIds
    /\ lastStmt = NoStmt
    /\ AppUnused

\* findRelevantContent(userQuery) or findRelevantContent(userQuery, userId) is
\* called and asks for the embedding of the query
FindRelevantContentCall ==
    /\ rq.pc = "idle"
    /\ \E u \in {Undefined, "u1"} :
          rq' = [rq EXCEPT !.pc = "embed", !.fn = "findRelevantContent",
                           !.userId = u]
    /\ UNCHANGED <<em, resources, lastStmt, ck, calls, store, appVars>>

\* the retrieve tool is executed and asks for the embedding of the query
RetrieveCall ==
    /\ rq.pc = "idle"
    /\ rq' = [rq EXCEPT !.pc = "embed", !.fn = "retrieve"]
    /\ UNCHANGED <<em, resources, lastStmt, ck, calls, store, appVars>>

\* await generateEmbedding(query) resolves; the SELECT is sent
QueryEmbedResolves ==
    /\ rq.pc = "embed"
    /\ \E q \in QueryVectors :
          rq' = [rq EXCEPT !.pc = "select", !.userQueryEmbedded = q]
    /\ UNCHANGED <<em, resources, lastStmt, ck, calls, store, appVars>>

\* await generateEmbedding(query) rejects; the call rejects
QueryEmbedRejects ==
    /\ rq.pc = "embed"
    /\ rq' = [rq EXCEPT !.pc = "thrown"]
    /\ UNCHANGED <<em, resources, lastStmt, ck, calls, store, appVars>>

\* the SELECT of findRelevantContent resolves; its rows are returned
FindRelevantContentReturns ==
    /\ rq.pc = "select"
    /\ rq.fn = "findRelevantContent"
    /\ \E tie \in TieOrders :
          LET res == SelectRelevant(store, rq.userQueryEmbedded, rq.userId, tie)
          IN  rq' = [rq EXCEPT !.pc = "returned", !.results = res,
                               !.names = [n \in 1..Len(res) |-> res[n].name]]
    /\ UNCHANGED <<em, resources, lastStmt, ck, calls, store, appVars>>

\* the SELECT of retrieve resolves; the rows are filtered by distance and the
\* context is built from those that remain
RetrieveReturns ==
    /\ rq.pc = "select"
    /\ rq.fn = "retrieve"
    /\ \E tie \in TieOrders :
          LET relevant ==
                  FilterByDistance(SelectNearest(store, rq.userQueryEmbedded, tie))
          IN  rq' = [rq EXCEPT !.pc = "returned",
                               !.names = [n \in 1..Len(relevant) |->
                                             relevant[n].content]]
    /\ UNCHANGED <<em, resources, lastStmt, ck, calls, store, appVars>>

NextRetrieve ==
    \/ FindRelevantContentCall
    \/ RetrieveCall
    \/ QueryEmbedResolves
    \/ QueryEmbedRejects
    \/ FindRelevantContentReturns
    \/ RetrieveReturns

SpecRetrieve == InitRetrieve /\ [][NextRetrieve]_vars

(***************************************************************************)
(* Properties of retrieval (checked under SpecRetrieve).                   *)
(***************************************************************************)

\* the positions of the rows the call may see
Visible ==
    {k \in 1..Len(store) : rq.userId # Undefined => store[k].userId = rq.userId}

SimOfRow(k) == Similarity(store[k].embedding, rq.userQueryEmbedded)

\* the position of the row with the given content (contents are distinct)
RowNamed(name) == CHOOSE k \in 1..Len(store) : store[k].content = name

\* C5: every entry findRelevantContent returns, in either variant, has a
\* similarity strictly greater than 0.3, and is a visible row of the table
\* with that similarity.
C5_AboveThreshold ==
    (rq.pc = "returned" /\ rq.fn = "findRelevantContent") =>
        \A n \in 1..Len(rq.results) :
            LET e == rq.results[n]
            IN  /\ e.similarity.dot > 0
                /\ 100 * e.similarity.dot * e.similarity.dot > 9 * e.similarity.nn
                /\ \E k \in Visible :
                      /\ store[k].content = e.name
                      /\ e.similarity = SimOfRow(k)

\* findRelevantContent returned some rows and left out a visible row whose
\* similarity is exactly 0.3
C5_Witness ==
    /\ rq.pc = "returned"
    /\ rq.fn = "findRelevantContent"
    /\ Len(rq.results) >= 2
    /\ \E k \in Visible :
          /\ SimOfRow(k).dot > 0
          /\ 100 * SimOfRow(k).dot * SimOfRow(k).dot = 9 * SimOfRow(k).nn
          /\ \A n \in 1..Len(rq.names) : rq.names[n] # store[k].content

\* the names are the first `limit` of the visible rows whose similarity is
\* above num / 10, by descending similarity
FirstByRank(names, num, limit) ==
    LET above == {k \in Visible : SimGreater(SimOfRow(k), num, 10)}
        got == {RowNamed(names[n]) : n \in 1..Len(names)}
    IN  /\ Len(names) = Min(limit, Cardinality(above))
        /\ Cardinality(got) = Len(names)
        /\ got \subseteq above
        /\ \A n \in 1..(Len(names) - 1) :
              ~SimLess(SimOfRow(RowNamed(names[n])),
                       SimOfRow(RowNamed(names[n + 1])))
        /\ \A k \in above \ got :
              \A j \in got : ~SimLess(SimOfRow(j), SimOfRow(k))

\* C6 (as claimed): what retrieval returns is the first topK of the chunks
\* above the threshold, by descending similarity: at most topK entries, in
\* non-increasing order, none left out that ranks above a returned one
\* (topK 4 and threshold 0.3 in findRelevantContent, 5 and similarity 0.7,
\* distance 0.3, in the retrieve tool).
C6_FirstTopKByRank ==
    rq.pc = "returned" =>
        IF rq.fn = "retrieve"
        THEN FirstByRank(rq.names, 7, 5)
        ELSE FirstByRank(rq.names, 3, 4)

\* C6, findRelevantContent alone (both variants): holds.
C6_FindRelevantContentOnly ==
    (rq.pc = "returned" /\ rq.fn = "findRelevantContent") =>
        FirstByRank(rq.names, 3, 4)

(***************************************************************************)
(* The same findRelevantContent call made a second time (SpecRepeat).      *)
(***************************************************************************)

\* findRelevantContent is called again with the same query and user; what the
\* first call returned and the table at this moment are kept for comparison
FindRelevantContentAgain ==
    /\ rq.pc = "returned"
    /\ rq.fn = "findRelevantContent"
    /\ rq.round = 1
    /\ rq' = [rq EXCEPT !.pc = "embedAgain", !.round = 2,
                        !.first = rq.results, !.storeBefore = store,
                        !.results = <<>>, !.names = <<>>]
    /\ UNCHANGED <<em, resources, lastStmt, ck, calls, store, appVars>>

\* await generateEmbedding(query) resolves for the same query with the same
\* vector; the SELECT is sent
QueryEmbedAgainResolves ==
    /\ rq.pc = "embedAgain"
    /\ rq' = [rq EXCEPT !.pc = "select"]
    /\ UNCHANGED <<em, resources, lastStmt, ck, calls, store, appVars>>

\* await generateEmbedding(query) rejects; the second call rejects
QueryEmbedAgainRejects ==
    /\ rq.pc = "embedAgain"
    /\ rq' = [rq EXCEPT !.pc = "thrown"]
    /\ UNCHANGED <<em, resources, lastStmt, ck, calls, store, appVars>>

NextRepeat ==
    \/ NextRetrieve
    \/ FindRelevantContentAgain
    \/ QueryEmbedAgainResolves
    \/ QueryEmbedAgainRejects

SpecRepeat == InitRetrieve /\ [][NextRepeat]_vars

\* C19 (as claimed): a second findRelevantContent call with the same query,
\* with no write to the table in between, returns the list the first call
\* returned, entry for entry, and leaves the table as it was.
C19_RepeatableReadOnly ==
    (rq.pc = "returned" /\ rq.round = 2) =>
        /\ rq.results = rq.first
        /\ store = rq.storeBefore

\* C18 (as claimed): of two returned chunks with the same similarity to the
\* query, the one inserted earlier comes first in the list
\* findRelevantContent returns.
C18_TiesByInsertionOrder ==
    (rq.pc = "returned" /\ rq.fn = "findRelevantContent") =>
        \A n, m \in 1..Len(rq.results) :
            (n < m /\ SimEqual(rq.results[n].similarity, rq.results[m].similarity))
                => RowNamed(rq.names[n]) < RowNamed(rq.names[m])

(***************************************************************************)
(* The tables: resources and embeddings under their row-level policies,    *)
(* with one ingest call (SpecTable).                                       *)
(***************************************************************************)
MaxClientRows == 1   \* rows a client of the database may insert itself

Users == {"u1", "u2"}

\* policies that also allow UPDATE
EmbeddingsPoliciesWithUpdate == {"SELECT", "INSERT", "UPDATE", "DELETE"}

\* the commands for which the embeddings table has a policy
EmbeddingsPolicies == {"SELECT", "INSERT", "DELETE"}

\* user_id of a row; ingest does not set the column, which leaves it null
RowUserId(row) == IF "userId" \in DOMAIN row THEN row.userId ELSE Null

\* row-level security is enabled: a command reaches a row only through a
\* policy for that command, and every policy tests auth.uid() = user_id
RlsPermits(cmd, uid, row) ==
    /\ cmd \in EmbeddingsPolicies
    /\ RowUserId(row) = uid

\* a row a client inserts for itself
ClientRow(n, u, r) ==
    [TableRow(n, VectorList[n]) EXCEPT !.userId = u, !.resourceId = r]

\* a deleted resource that leaves its chunks where they are
DeleteKeepsChunks(rows, r) == rows

\* ON DELETE CASCADE of embeddings.resource_id: the chunks of the resource go
\* with it
CascadeDelete(rows, r) == SelectSeq(rows, LAMBDA row : row.resourceId # r)

\* the ingest inputs without the long text
TableInputs == {in \in IngestInputs : in.text # LongText}

\* the steps of the ingest call of SpecTable
IngestStep(c) ==
    \/ IngestCallWith(c, TableInputs)
    \/ EmbedResolves(c)
    \/ EmbedRejects(c)
    \/ InsertResolves(c)
    \/ InsertRejects(c)
    \/ BackoffElapses(c)

\* db.insert(resources).values({id, content})
AddResource ==
    /\ \E r \in ResourceIds \ resources :
          resources' = resources \cup {r}
    /\ lastStmt' = [cmd |-> "INSERT", table |-> "resources", rows |-> 1,
                    cascaded |-> 0]
    /\ UNCHANGED <<ck, calls, store, rq, em, appVars>>

\* DELETE FROM resources WHERE id = r
DeleteResource ==
    /\ \E r \in resources :
          /\ resources' = resources \ {r}
          /\ store' = CascadeDelete(store, r)
          /\ lastStmt' = [cmd |-> "DELETE", table |-> "resources", rows |-> 1,
                          cascaded |-> Len(store) - Len(CascadeDelete(store, r))]
    /\ UNCHANGED <<ck, calls, rq, em, appVars>>

\* INSERT INTO embeddings by user u, with user_id = u
ClientInsert ==
    /\ \E u \in Users, n \in 1..MaxClientRows, r \in ResourceIds :
          LET row == ClientRow(n, u, r)
          IN  /\ RlsPermits("INSERT", u, row)
              /\ \A k \in 1..Len(store) : store[k].id # row.id
              /\ InsertAccepted(<<row>>, resources)
              /\ store' = DbInsertCommitted(store, <<row>>)
    /\ lastStmt' = [cmd |-> "INSERT", table |-> "embeddings", rows |-> 1,
                    cascaded |-> 0]
    /\ UNCHANGED <<ck, calls, rq, em, resources, appVars>>

\* UPDATE embeddings SET content = 'b' by user u
ClientUpdate ==
    /\ \E u \in Users :
          LET hit == {k \in 1..Len(store) : RlsPermits("UPDATE", u, store[k])}
          IN  /\ store' = [k \in 1..Len(store) |->
                              IF k \in hit
                              THEN [store[k] EXCEPT !.content = <<"b">>]
                              ELSE store[k]]
              /\ lastStmt' = [cmd |-> "UPDATE", table |-> "embeddings",
                              rows |-> Cardinality(hit), cascaded |-> 0]
    /\ UNCHANGED <<ck, calls, rq, em, resources, appVars>>

\* DELETE FROM embeddings by user u
ClientDelete ==
    /\ \E u \in Users :
          LET hit == {k \in 1..Len(store) : RlsPermits("DELETE", u, store[k])}
          IN  /\ store' = SelectSeq(store,
                                    LAMBDA row : ~RlsPermits("DELETE", u, row))
              /\ lastStmt' = [cmd |-> "DELETE", table |-> "embeddings",
                              rows |-> Cardinality(hit), cascaded |-> 0]
    /\ UNCHANGED <<ck, calls, rq, em, resources, appVars>>

NextTable ==
    \/ \E c \in {1} : IngestStep(c)
    \/ AddResource
    \/ DeleteResource
    \/ ClientInsert
    \/ ClientUpdate
    \/ ClientDelete

SpecTable == Init /\ [][NextTable]_vars

\* C16: a chunk record, once written, never changes: a row that is in the
\* table before and after a step is the same row; a step of ingest only adds
\* rows after those already there; an UPDATE by a client reaches no row, the
\* embeddings table having policies for SELECT, INSERT and DELETE only.
C16_AppendOnly ==
    [][/\ \A k \in 1..Len(store) : \A j \in 1..Len(store') :
              store'[j].id = store[k].id => store'[j] = store[k]
       /\ calls' # calls =>
              /\ Len(store') >= Len(store)
              /\ SubSeq(store', 1, Len(store)) = store
       /\ (calls' = calls /\ lastStmt'.cmd = "UPDATE") =>
              lastStmt'.rows = 0 /\ store' = store]_vars

\* a client that owns a row of the table ran an UPDATE, next to a row that
\* ingest wrote
C16_Witness ==
    /\ lastStmt.cmd = "UPDATE"
    /\ \E k \in 1..Len(store) : RowUserId(store[k]) \in Users
    /\ \E k \in 1..Len(store) : store[k].id[1] = 1

\* C17: every chunk's resourceId is the id of an existing resource, also
\* after a resource with chunks was deleted.
C17_NoOrphanChunk ==
    \A k \in 1..Len(store) : store[k].resourceId \in resources

\* a resource with chunks was deleted while the other resource keeps a chunk
C17_Witness ==
    /\ lastStmt.cmd = "DELETE"
    /\ lastStmt.table = "resources"
    /\ lastStmt.cascaded >= 1
    /\ store # <<>>

(***************************************************************************)
(* lib/supabase/client.ts: getSupabaseClient (SpecClient).                 *)
(***************************************************************************)

\* chunking, ingest, embedding and retrieval take no step
CoreUnused ==
    /\ ck = ckIdle
    /\ calls = <<>>
    /\ store = <<>>
    /\ rq = rqIdle
    /\ em = emUnused
    /\ resources = ResourceIds
    /\ lastStmt = NoStmt

NumCallers == 3      \* call sites of getSupabaseClient in the process
MaxGets == 4         \* calls each call site may make

Callers == 1..NumCallers

\* let supabase: SupabaseClient | null = null
NoHandle == 0

\* a test that takes the handle for missing every time
AlwaysMissing(handle) == TRUE

\* if (!supabase)
Missing(handle) == handle = NoHandle

\* createClient(url, key, options): a new client object, the n-th one made
createClient(n) == n

InitClient ==
    /\ CoreUnused
    /\ sb = [supabase |-> NoHandle, created |-> 0,
             returned |-> [c \in Callers |-> <<>>]]
    /\ acl = Unused
    /\ loop = Unused
    /\ chat = Unused
    /\ doc = Unused

\* getSupabaseClient() called at call site c; it runs to its return without
\* giving up control
GetSupabaseClient(c) ==
    /\ Len(sb.returned[c]) < MaxGets
    /\ LET created == IF Missing(sb.supabase) THEN sb.created + 1 ELSE sb.created
           supabase == IF Missing(sb.supabase)
                       THEN createClient(sb.created + 1)
                       ELSE sb.supabase
       IN  sb' = [supabase |-> supabase, created |-> created,
                  returned |-> [sb.returned EXCEPT ![c] = Append(@, supabase)]]
    /\ UNCHANGED <<coreVars, acl, loop, chat, doc>>

NextClient == \E c \in Callers : GetSupabaseClient(c)

SpecClient == InitClient /\ [][NextClient]_vars

\* the handles returned so far, over all call sites
ReturnedHandles ==
    UNION {{sb.returned[c][n] : n \in 1..Len(sb.returned[c])} : c \in Callers}

\* C21: createClient is not invoked before the first getSupabaseClient call,
\* has been invoked exactly once after any number of calls, and every call
\* has returned the one handle it made.
C21_InitializedOnce ==
    /\ ReturnedHandles = {} => sb.created = 0 /\ sb.supabase = NoHandle
    /\ ReturnedHandles # {} =>
          /\ sb.created = 1
          /\ ReturnedHandles = {sb.supabase}
          /\ sb.supabase # NoHandle

\* every call site has called more than once
C21_Witness ==
    /\ \A c \in Callers : Len(sb.returned[c]) >= 2
    /\ sb.created = 1

(***************************************************************************)
(* Row-level security of resources, conversations and messages (SpecAcl).  *)
(***************************************************************************)
MaxAclRows == 1      \* ids a row of each table can have

\* who sends a statement: a signed-in user, or nobody (auth.uid() is null)
Actors == Users \cup {Null}

AclTables == {"resources", "conversations", "messages"}

\* the commands each table has a policy for
Policies ==
    [resources |-> {"SELECT", "INSERT", "UPDATE", "DELETE"},
     conversations |-> {"SELECT", "INSERT", "UPDATE", "DELETE"},
     messages |-> {"SELECT", "INSERT", "DELETE"}]

\* a policy expression that lets every row through
AnyRow(uid, userId) == TRUE

\* auth.uid() = user_id: null on either side does not compare equal
OwnsRow(uid, userId) == uid # Null /\ userId # Null /\ uid = userId

\* the rows a statement can name: resources.user_id may be null,
\* conversations.user_id is NOT NULL, messages point at a conversation
RowsFor(t) ==
    IF t = "messages"
    THEN {[id |-> i, conversationId |-> c] :
             i \in 1..MaxAclRows, c \in 1..MaxAclRows}
    ELSE {[id |-> i, userId |-> o, v |-> x] :
             i \in 1..MaxAclRows,
             o \in (IF t = "resources" THEN Actors ELSE Users),
             x \in {"x", "y"}}

\* the USING / WITH CHECK expression of the policies of table t, for actor u
\* and a row, over the tables a
PolicyHolds(a, t, u, row) ==
    IF t = "messages"
    THEN \E c \in a.conversations :
             c.id = row.conversationId /\ OwnsRow(u, c.userId)
    ELSE OwnsRow(u, row.userId)

\* row-level security is enabled on the three tables: a command reaches a
\* row only through a policy for that command
Permitted(a, t, cmd, u, row) ==
    cmd \in Policies[t] /\ PolicyHolds(a, t, u, row)

NoStatement == [op |-> "none", uid |-> Null, table |-> "none", rows |-> {}]

\* tables before any statement: one resource may predate the user_id column
InitAcl ==
    /\ CoreUnused
    /\ sb = Unused
    /\ \E old \in {{}, {[id |-> 1, userId |-> Null, v |-> "x"]}} :
          acl = [resources |-> old, conversations |-> {}, messages |-> {},
                 last |-> NoStatement]
    /\ loop = Unused
    /\ chat = Unused
    /\ doc = Unused

\* SELECT * FROM t, sent by u: the rows the SELECT policy lets through
AclSelect(u) ==
    /\ \E t \in AclTables :
          acl' = [acl EXCEPT !.last =
                     [op |-> "SELECT", uid |-> u, table |-> t,
                      rows |-> {r \in acl[t] : Permitted(acl, t, "SELECT", u, r)}]]
    /\ UNCHANGED <<coreVars, sb, loop, chat, doc>>

\* INSERT INTO t VALUES (row), sent by u: primary key, foreign key and the
\* WITH CHECK expression of the INSERT policy
AclInsert(u) ==
    /\ \E t \in AclTables : \E row \in RowsFor(t) :
          /\ \A r \in acl[t] : r.id # row.id
          /\ t = "messages" =>
                 \E c \in acl.conversations : c.id = row.conversationId
          /\ Permitted(acl, t, "INSERT", u, row)
          /\ acl' = [acl EXCEPT ![t] = @ \cup {row},
                                !.last = [op |-> "INSERT", uid |-> u,
                                          table |-> t, rows |-> {row}]]
    /\ UNCHANGED <<coreVars, sb, loop, chat, doc>>

\* UPDATE t SET ... WHERE id = old.id, sent by u: the USING expression of the
\* UPDATE policy on the old row and, no WITH CHECK being given, also on the
\* new one
AclUpdate(u) ==
    /\ \E t \in AclTables : \E old \in acl[t] : \E new \in RowsFor(t) :
          /\ new.id = old.id
          /\ new # old
          /\ Permitted(acl, t, "UPDATE", u, old)
          /\ Permitted(acl, t, "UPDATE", u, new)
          /\ acl' = [acl EXCEPT ![t] = (@ \ {old}) \cup {new},
                                !.last = [op |-> "UPDATE", uid |-> u,
                                          table |-> t, rows |-> {new}]]
    /\ UNCHANGED <<coreVars, sb, loop, chat, doc>>

\* DELETE FROM t WHERE id = old.id, sent by u: the USING expression of the
\* DELETE policy; the messages of a deleted conversation go with it
AclDelete(u) ==
    /\ \E t \in AclTables : \E old \in acl[t] :
          /\ Permitted(acl, t, "DELETE", u, old)
          /\ acl' = [acl EXCEPT
                        ![t] = @ \ {old},
                        !.messages =
                            IF t = "conversations"
                            THEN {m \in @ : m.conversationId # old.id}
                            ELSE IF t = "messages" THEN @ \ {old} ELSE @,
                        !.last = [op |-> "DELETE", uid |-> u,
                                  table |-> t, rows |-> {old}]]
    /\ UNCHANGED <<coreVars, sb, loop, chat, doc>>

NextAcl ==
    \E u \in Actors :
        \/ AclSelect(u)
        \/ AclInsert(u)
        \/ AclUpdate(u)
        \/ AclDelete(u)

SpecAcl == InitAcl /\ [][NextAcl]_vars

\* the user a row belongs to: its user_id, or for a message the user_id of
\* its conversation, in the tables a
OwnerOf(a, t, row) ==
    IF t = "messages"
    THEN IF \E c \in a.conversations : c.id = row.conversationId
         THEN (CHOOSE c \in a.conversations : c.id = row.conversationId).userId
         ELSE Null
    ELSE row.userId

\* C23: whatever a statement of user u returns, adds, changes or removes
\* belongs to u: a SELECT returns rows of u only, a row that appears belongs
\* to u after the step, a row that disappears belonged to u before it; a
\* statement of somebody who is not signed in touches nothing.
C23_RowIsolation ==
    [][LET u == acl'.last.uid
       IN  /\ acl'.last.op = "SELECT" =>
                 \A r \in acl'.last.rows :
                     u # Null /\ OwnerOf(acl, acl'.last.table, r) = u
           /\ \A t \in AclTables :
                 /\ \A r \in acl'[t] \ acl[t] :
                       u # Null /\ OwnerOf(acl', t, r) = u
                 /\ \A r \in acl[t] \ acl'[t] :
                       u # Null /\ OwnerOf(acl, t, r) = u]_vars

\* u1 has read the messages and got none, while u2 has a conversation with a
\* message in it and u1 a resource of its own
C23_Witness ==
    /\ acl.last.op = "SELECT"
    /\ acl.last.table = "messages"
    /\ acl.last.uid = "u1"
    /\ acl.last.rows = {}
    /\ acl.messages # {}
    /\ \E c \in acl.conversations : c.userId = "u2" /\ c.v = "y"
    /\ \E r \in acl.resources : r.userId = "u1"

(***************************************************************************)
(* streamText with tools and stopWhen: stepCountIs(n) (SpecLoop).          *)
(*                                                                         *)
(* A step is one answer of the model together with the execution of the    *)
(* tool calls it asks for.  After a step with tool calls the stop          *)
(* condition is tested; a step without tool calls ends the execution.      *)
(***************************************************************************)
StepCount == 5       \* stopWhen: stepCountIs(5)
MaxToolsPerStep == 2 \* tool calls the model may ask for in one answer
StepCap == 7         \* no execution of the model is followed further

\* a stop condition that never holds
stepCountNever(n, steps) == FALSE

\* stepCountIs(n), tested on the number of steps made so far
stepCountIs(n, steps) == steps = n

\* the ceilings tried: 1 .. 5, the playbook's 3 and the endpoint's 5 included
InitLoop ==
    /\ CoreUnused
    /\ sb = Unused
    /\ acl = Unused
    /\ \E n \in 1..StepCount :
          loop = [pc |-> "awaiting-model", n |-> n, steps |-> 0,
                  toolSteps |-> 0, toolCalls |-> 0, stopped |-> "no"]
    /\ chat = Unused
    /\ doc = Unused

\* the model answers with tool calls: a step begins and the tools are invoked
ModelCallsTools ==
    /\ loop.pc = "awaiting-model"
    /\ loop.steps < StepCap
    /\ \E k \in 1..MaxToolsPerStep :
          loop' = [loop EXCEPT !.pc = "tool-invoked", !.steps = @ + 1,
                               !.toolSteps = @ + 1, !.toolCalls = @ + k]
    /\ UNCHANGED <<coreVars, sb, acl, chat, doc>>

\* the model answers without a tool call: the step is the last one
ModelResponds ==
    /\ loop.pc = "awaiting-model"
    /\ loop' = [loop EXCEPT !.pc = "responding", !.steps = @ + 1,
                            !.stopped = "text"]
    /\ UNCHANGED <<coreVars, sb, acl, chat, doc>>

\* the tools of the step have returned: the execution stops when the stop
\* condition holds and asks the model again otherwise
ToolsReturn ==
    /\ loop.pc = "tool-invoked"
    /\ loop' = IF stepCountIs(loop.n, loop.steps)
               THEN [loop EXCEPT !.pc = "responding", !.stopped = "ceiling"]
               ELSE [loop EXCEPT !.pc = "awaiting-model"]
    /\ UNCHANGED <<coreVars, sb, acl, chat, doc>>

NextLoop == ModelCallsTools \/ ModelResponds \/ ToolsReturn

SpecLoop == InitLoop /\ [][NextLoop]_vars

\* the model answers every request and every tool returns
SpecLoopFair == SpecLoop /\ WF_vars(NextLoop)

\* the moves of the execution between its three states
LoopMoves ==
    {<<"awaiting-model", "tool-invoked">>, <<"awaiting-model", "responding">>,
     <<"tool-invoked", "awaiting-model">>, <<"tool-invoked", "responding">>}

ConcurrentCalls == {1, 2}

\* the ingest inputs with a short text that has a chunk
ConcurrentInputs ==
    {in \in IngestInputs : in.text # LongText /\ chunkText(in.text, DefaultSize, DefaultOverlap) # <<>>}

InFlight(a) == a.pc \in {"embedMany", "insert", "backoff"}

\* a call that waits for the backoff of every other call to end
BlockedByBackoff(cs, c, resourceId) ==
    {d \in DOMAIN cs : d # c /\ cs[d].pc = "backoff"}

\* a call that waits for the calls in flight for the same resource to end
BlockedBySameResource(cs, c, resourceId) ==
    {d \in DOMAIN cs : d # c /\ InFlight(cs[d]) /\ cs[d].resourceId = resourceId}

\* the calls that call c, working on resourceId, has to wait for: ingest
\* takes no lock and awaits nothing but its own embedMany, INSERT and timer
Blocking(cs, c, resourceId) == {}

InitConcurrent ==
    /\ ck = ckIdle
    /\ calls = [c \in ConcurrentCalls |-> callIdle]
    /\ store = <<>>
    /\ rq = rqIdle
    /\ em = emUnused
    /\ resources = ResourceIds
    /\ lastStmt = NoStmt
    /\ AppUnused

\* ingest is called with the given arguments
ConcurrentIngestCall(c, in) ==
    /\ Blocking(calls, c, in.resourceId) = {}
    /\ IngestCallWith(c, {in})

\* a later step of ingest call c
ConcurrentEmbedResolves(c) ==
    Blocking(calls, c, calls[c].resourceId) = {} /\ EmbedResolves(c)

ConcurrentInsertResolves(c) ==
    Blocking(calls, c, calls[c].resourceId) = {} /\ InsertResolves(c)

ConcurrentFailureOrTimer(c) ==
    /\ Blocking(calls, c, calls[c].resourceId) = {}
    /\ \/ EmbedRejects(c)
       \/ InsertRejects(c)
       \/ BackoffElapses(c)

\* findRelevantContent(userQuery) is called
ConcurrentRetrievalCall ==
    /\ rq.pc = "idle"
    /\ rq' = [rq EXCEPT !.pc = "embed", !.fn = "findRelevantContent"]
    /\ UNCHANGED <<ck, calls, store, em, resources, lastStmt, appVars>>

ConcurrentRetrievalStep ==
    \/ ConcurrentRetrievalCall
    \/ QueryEmbedResolves
    \/ QueryEmbedRejects
    \/ FindRelevantContentReturns

NextConcurrent ==
    \/ \E c \in ConcurrentCalls :
          \/ \E in \in ConcurrentInputs : ConcurrentIngestCall(c, in)
          \/ ConcurrentEmbedResolves(c)
          \/ ConcurrentInsertResolves(c)
          \/ ConcurrentFailureOrTimer(c)
    \/ ConcurrentRetrievalStep

SpecConcurrent == InitConcurrent /\ [][NextConcurrent]_vars

\* C25: while an ingest call waits between two attempts, the other call can
\* be started with any arguments, its embedMany and its INSERT can resolve,
\* and a retrieval can be started and can take each of its steps: the wait
\* keeps nothing from running.
C25_BackoffDoesNotBlock ==
    \A c \in ConcurrentCalls : \A d \in ConcurrentCalls \ {c} :
        calls[c].pc = "backoff" =>
            /\ calls[d].pc = "idle" =>
                  \A in \in ConcurrentInputs : ENABLED ConcurrentIngestCall(d, in)
            /\ calls[d].pc = "embedMany" => ENABLED ConcurrentEmbedResolves(d)
            /\ (calls[d].pc = "insert" /\ HasDimensions(calls[d].vectors)) =>
                  ENABLED ConcurrentInsertResolves(d)
            /\ rq.pc = "idle" => ENABLED ConcurrentRetrievalCall
            /\ rq.pc = "embed" => ENABLED QueryEmbedResolves
            /\ rq.pc = "select" => ENABLED FindRelevantContentReturns

\* call 1 is waiting after its first failure; call 2, for the other
\* resource, has written its row and returned; a retrieval has returned that
\* row
C25_Witness ==
    /\ calls[1].pc = "backoff"
    /\ calls[1].attempt = 1
    /\ RowsOf(1) = <<>>
    /\ calls[2].pc = "returned"
    /\ calls[2].resourceId # calls[1].resourceId
    /\ RowsOf(2) # <<>>
    /\ rq.pc = "returned"
    /\ rq.names # <<>>

\* C26: a call for a resource keeps no other call for the same resource from
\* starting or from writing its rows, in whatever state the first one is, and
\* the table takes a second row with the same resourceId and order; two
\* concurrent calls with the same arguments both succeed.
C26_SameResourceNotCoordinated ==
    \A c \in ConcurrentCalls : \A d \in ConcurrentCalls \ {c} :
        /\ (calls[c].pc # "idle" /\ calls[d].pc = "idle") =>
              \A in \in ConcurrentInputs :
                  in.resourceId = calls[c].resourceId =>
                      ENABLED ConcurrentIngestCall(d, in)
        /\ (calls[d].pc = "insert" /\ HasDimensions(calls[d].vectors)
                /\ calls[c].resourceId = calls[d].resourceId) =>
              ENABLED ConcurrentInsertResolves(d)

\* both calls were in flight together for the same resource with the same
\* starting order, both returned success, and the table holds two rows with
\* the same resourceId and order
C26_Witness ==
    /\ \A c \in ConcurrentCalls : calls[c].result.success
    /\ calls[1].order # NoNumber
    /\ calls[1].failures >= 1
    /\ Len(store) = 2
    /\ store[1].id[1] = 2
    /\ store[2].id[1] = 1
    /\ store[1].resourceId = store[2].resourceId
    /\ store[1].order = store[2].order

(***************************************************************************)
(* app/(preview)/page.tsx: the Chat component (SpecChat).                  *)
(*                                                                         *)
(* A change of state renders the component; the effect of a render whose   *)
(* isAwaitingResponse differs from that of the effect before runs later,   *)
(* but before the next render.  A timer may fire in between.               *)
(***************************************************************************)
MaxInputLen == 2     \* longest text typed into the input
MaxSubmits == 2      \* submit events in one behaviour
HideDelayMs == 120   \* setTimeout(() => setShowLoading(false), 120)

InputChars == {"a", " "}

Inputs == UNION {[1..k -> InputChars] : k \in 0..MaxInputLen}

\* the status of useChat
Statuses == {"ready", "submitted", "streaming", "error"}

NoTimer == <<>>

\* a test that lets every non-empty input through
NotEmpty(input) == input # <<>>

\* input.trim() !== ""
ShouldSend(input) == trim(input) # <<>>

\* a cleanup that leaves the timer running
keepTimeout(timer) == timer

\* clearTimeout(timeout)
clearTimeout(timer) == NoTimer

\* status === "submitted" || status === "streaming" || currentToolCall != null
isAwaitingResponse(c) ==
    c.status = "submitted" \/ c.status = "streaming" \/ c.toolPending

\* the effect of the last render has not run yet
EffectPending(c) ==
    c.effectFor # (IF isAwaitingResponse(c) THEN "awaiting" ELSE "settled")

\* the component after its first render: useState(""), status ready, no
\* message, useState(isAwaitingResponse); no effect has run
InitChat ==
    /\ CoreUnused
    /\ sb = Unused
    /\ acl = Unused
    /\ loop = Unused
    /\ chat = [input |-> <<>>, status |-> "ready", toolPending |-> FALSE,
               showLoading |-> FALSE, timer |-> NoTimer, effectFor |-> "none",
               sent |-> <<>>, submits |-> 0, cancelled |-> FALSE]
    /\ doc = Unused

\* onChange: setInput(e.target.value)
SetInput ==
    /\ ~EffectPending(chat)
    /\ \E v \in Inputs : v # chat.input /\ chat' = [chat EXCEPT !.input = v]
    /\ UNCHANGED <<coreVars, sb, acl, loop, doc>>

\* onSubmit: handleSubmit(e); sendMessage puts useChat into submitted
handleSubmit ==
    /\ ~EffectPending(chat)
    /\ chat.submits < MaxSubmits
    /\ chat' = IF ShouldSend(chat.input)
               THEN [chat EXCEPT !.sent = Append(@, chat.input),
                                 !.input = <<>>,
                                 !.status = "submitted",
                                 !.submits = @ + 1]
               ELSE [chat EXCEPT !.submits = @ + 1]
    /\ UNCHANGED <<coreVars, sb, acl, loop, doc>>

\* useChat reports another status, or a tool part becomes pending or done
StatusChanges ==
    /\ ~EffectPending(chat)
    /\ \E st \in Statuses, tp \in BOOLEAN :
          /\ <<st, tp>> # <<chat.status, chat.toolPending>>
          /\ chat' = [chat EXCEPT !.status = st, !.toolPending = tp]
    /\ UNCHANGED <<coreVars, sb, acl, loop, doc>>

\* the effect on [isAwaitingResponse] runs: the cleanup of the effect
\* before, then its body
RunEffect ==
    /\ EffectPending(chat)
    /\ LET timer == IF chat.effectFor = "settled"
                    THEN clearTimeout(chat.timer)
                    ELSE chat.timer
       IN  chat' = IF isAwaitingResponse(chat)
                   THEN [chat EXCEPT !.showLoading = TRUE, !.timer = timer,
                                     !.effectFor = "awaiting",
                                     !.cancelled = @ \/ chat.timer # NoTimer]
                   ELSE [chat EXCEPT !.timer = <<HideDelayMs>>,
                                     !.effectFor = "settled"]
    /\ UNCHANGED <<coreVars, sb, acl, loop, doc>>

\* the timer fires: setShowLoading(false)
TimerFires ==
    /\ chat.timer # NoTimer
    /\ chat' = [chat EXCEPT !.showLoading = FALSE, !.timer = NoTimer]
    /\ UNCHANGED <<coreVars, sb, acl, loop, doc>>

NextChat ==
    \/ SetInput
    \/ handleSubmit
    \/ StatusChanges
    \/ RunEffect
    \/ TimerFires

SpecChat == InitChat /\ [][NextChat]_vars

Blank(input) == \A i \in 1..Len(input) : input[i] \in {" ", "\n", "\t"}

\* C27: a submit sends exactly one message, the input as it is, and empties
\* the input when the input has a character that is not white space; it
\* sends nothing and leaves the input as it is otherwise; nothing else sends.
C27_SubmitValidates ==
    [][/\ chat'.submits = chat.submits => chat'.sent = chat.sent
       /\ chat'.submits # chat.submits =>
             IF Blank(chat.input)
             THEN chat'.sent = chat.sent /\ chat'.input = chat.input
             ELSE /\ chat'.sent = chat.sent \o <<chat.input>>
                  /\ chat'.input = <<>>]_vars

\* a blank input was submitted and nothing sent, then " a" was sent as typed
C27_Witness ==
    /\ chat.submits = 2
    /\ chat.sent = <<<<" ", "a">>>>
    /\ chat.input = <<>>

\* C28: the indicator is hidden only by the firing of the 120 ms timer, the
\* timer is started only by the effect of a render that is not awaiting, and
\* once the effect of an awaiting render has run the timer is cancelled and
\* the indicator stays shown for as long as isAwaitingResponse is true.
C28_LoadingNotHiddenWhileAwaiting ==
    /\ []((isAwaitingResponse(chat) /\ chat.effectFor = "awaiting") =>
             chat.timer = NoTimer /\ chat.showLoading)
    /\ [][/\ (chat.showLoading /\ ~chat'.showLoading) =>
                 chat.timer = <<120>> /\ chat'.timer = NoTimer
          /\ (chat.timer = NoTimer /\ chat'.timer # NoTimer) =>
                 ~isAwaitingResponse(chat') /\ chat'.effectFor = "settled"]_vars

\* the effect of an awaiting render has cancelled a running timer while the
\* indicator was shown
C28_Witness ==
    /\ isAwaitingResponse(chat)
    /\ chat.effectFor = "awaiting"
    /\ chat.toolPending
    /\ chat.status = "ready"
    /\ chat.sent # <<>>
    /\ chat.showLoading
    /\ chat.cancelled
    /\ chat.timer = NoTimer

(***************************************************************************)
(* app/(preview)/page.tsx: currentToolCall (SpecToolCall).                 *)
(***************************************************************************)
MaxParts == 2        \* parts of an assistant message

\* the parts tried: a text part that is still streaming, a dynamic tool part
\* and a static one (type "tool-" followed by the tool's name), each pending
\* and finished
Parts ==
    {[type |-> "text", state |-> "streaming", toolName |-> Null],
     [type |-> "dynamic-tool", state |-> "input-available", toolName |-> "search"],
     [type |-> "dynamic-tool", state |-> "output-available", toolName |-> "search"],
     [type |-> "tool-addResource", state |-> "input-streaming", toolName |-> Null],
     [type |-> "tool-addResource", state |-> "output-error", toolName |-> Null]}

PartLists == UNION {[1..k -> Parts] : k \in 0..MaxParts}

\* the roles of the messages of a conversation
Shapes ==
    {<<>>, <<"user">>, <<"user", "assistant">>, <<"assistant", "user">>,
     <<"user", "assistant", "user", "assistant">>,
     <<"assistant", "assistant", "system">>}

UserParts == <<[type |-> "text", state |-> "done", toolName |-> Null]>>

\* the lists of messages of a shape, the parts of its first and of its other
\* assistant messages being p and q
MessagesOf(shape, p, q) ==
    [i \in 1..Len(shape) |->
        [role |-> shape[i],
         parts |-> IF shape[i] # "assistant"
                   THEN UserParts
                   ELSE IF \A j \in 1..(i - 1) : shape[j] # "assistant"
                        THEN p
                        ELSE q]]

\* a list left in its order
sameOrder(seq) == seq

\* [...seq].reverse()
reverse(seq) == [i \in 1..Len(seq) |-> seq[Len(seq) + 1 - i]]

\* Array.prototype.find: the first element that satisfies the test (given as
\* the set of the elements that satisfy it), as a list of one element, or the
\* empty list for undefined
find(seq, accepted) ==
    LET hits == {i \in 1..Len(seq) : seq[i] \in accepted}
    IN  IF hits = {}
        THEN <<>>
        ELSE <<seq[CHOOSE i \in hits : \A j \in hits : i <= j]>>

\* the elements of a list
Elements(seq) == {seq[i] : i \in 1..Len(seq)}

\* isToolUIPart(part): the type starts with "tool-"
isToolUIPart(part) == part.type \in {"tool-addResource"}

\* getToolName(part): the type without "tool-"
getToolName(part) == IF part.type = "tool-addResource" THEN "addResource" ELSE Undefined

\* the test of the find over the parts
IsPendingPart(part) ==
    IF part.type = "dynamic-tool"
    THEN part.state # "output-available" /\ part.state # "output-error"
    ELSE IF ~isToolUIPart(part)
         THEN FALSE
         ELSE part.state # "output-available" /\ part.state # "output-error"

\* the function of the useMemo
currentToolCall(messages) ==
    LET lastAssistant == find(reverse(messages), {m \in Elements(messages) : m.role = "assistant"})
    IN  IF lastAssistant = <<>>
        THEN Undefined
        ELSE LET pendingPart == find(reverse(lastAssistant[1].parts),
                                     {part \in Elements(lastAssistant[1].parts) :
                                         IsPendingPart(part)})
             IN  IF pendingPart = <<>>
                 THEN Undefined
                 ELSE IF pendingPart[1].type = "dynamic-tool"
                      THEN pendingPart[1].toolName
                      ELSE IF isToolUIPart(pendingPart[1])
                           THEN getToolName(pendingPart[1])
                           ELSE Undefined

InitToolCall ==
    /\ CoreUnused
    /\ sb = Unused
    /\ acl = Unused
    /\ loop = Unused
    /\ \E shape \in Shapes, p \in PartLists, q \in PartLists :
          chat = [pc |-> "render", messages |-> MessagesOf(shape, p, q),
                  currentToolCall |-> Undefined]
    /\ doc = Unused

\* the component renders: useMemo computes currentToolCall from messages
RenderToolCall ==
    /\ chat.pc = "render"
    /\ chat' = [chat EXCEPT !.pc = "rendered",
                            !.currentToolCall = currentToolCall(chat.messages)]
    /\ UNCHANGED <<coreVars, sb, acl, loop, doc>>

NextToolCall == RenderToolCall

SpecToolCall == InitToolCall /\ [][NextToolCall]_vars

\* the name of a tool part
ToolNameOf(part) ==
    IF part.type = "dynamic-tool" THEN part.toolName ELSE "addResource"

\* C29: currentToolCall is the tool name of the last part of the most recent
\* assistant message that is a tool part, dynamic or static, in a state other
\* than output-available and output-error; it is undefined when there is no
\* assistant message or that message has no such part, whatever the parts of
\* earlier assistant messages are.
C29_CurrentToolCall ==
    chat.pc = "rendered" =>
        LET assistants == {i \in 1..Len(chat.messages) :
                              chat.messages[i].role = "assistant"}
        IN  IF assistants = {}
            THEN chat.currentToolCall = Undefined
            ELSE LET last == CHOOSE i \in assistants : \A j \in assistants : j <= i
                     parts == chat.messages[last].parts
                     pending == {k \in 1..Len(parts) :
                                    /\ parts[k].type \in {"dynamic-tool", "tool-addResource"}
                                    /\ parts[k].state \notin {"output-available", "output-error"}}
                 IN  IF pending = {}
                     THEN chat.currentToolCall = Undefined
                     ELSE chat.currentToolCall =
                              ToolNameOf(parts[CHOOSE k \in pending :
                                                   \A j \in pending : j <= k])

\* two assistant messages: the earlier one has a pending static tool part,
\* the last one a pending static part followed by a pending dynamic one, which
\* is the one reported
C29_Witness ==
    /\ chat.pc = "rendered"
    /\ Len(chat.messages) = 4
    /\ Len(chat.messages[2].parts) = 1
    /\ chat.messages[2].parts[1].type = "tool-addResource"
    /\ chat.messages[2].parts[1].state = "input-streaming"
    /\ Len(chat.messages[4].parts) = 2
    /\ chat.messages[4].parts[1].type = "tool-addResource"
    /\ chat.messages[4].parts[1].state = "input-streaming"
    /\ chat.messages[4].parts[2].state = "input-available"
    /\ chat.currentToolCall = "search"

(***************************************************************************)
(* Document processing: processDocument (SpecDocument).                    *)
(***************************************************************************)
MaxDocCalls == 2     \* calls of processDocument, one after the other
MaxChunks == 2       \* chunks the splitter returns

FileTypes ==
    {"application/pdf",
     "application/vnd.openxmlformats-officedocument.wordprocessingml.document",
     "text/plain", "text/markdown", "image/png"}

\* the file types whose parser is awaited
AwaitedParse ==
    {"application/pdf",
     "application/vnd.openxmlformats-officedocument.wordprocessingml.document"}

\* the file types decoded in place
DecodedInPlace == {"text/plain", "text/markdown"}

UnsupportedFileType == "Unsupported file type"

\* the error thrown by the read of a name that no enclosing scope declares
ReferenceError == "ReferenceError: doc is not defined"

NoError == "none"

docIdle == [pc |-> "idle", fileType |-> Null, created |-> 0, text |-> FALSE,
            chunks |-> 0, i |-> 0, caught |-> NoError, thrown |-> NoError,
            documents |-> <<>>, resources |-> 0, calls |-> 0]

InitDocument ==
    /\ CoreUnused
    /\ sb = Unused
    /\ acl = Unused
    /\ loop = Unused
    /\ chat = Unused
    /\ doc = docIdle

\* the catch block is entered with the error
Throw(d, error) == [d EXCEPT !.pc = "catch", !.caught = error]

\* processDocument(params) is called; the try block starts with createDocument
ProcessDocumentCall ==
    /\ doc.pc \in {"idle", "resolved", "rejected"}
    /\ doc.calls < MaxDocCalls
    /\ \E fileType \in FileTypes :
          doc' = [docIdle EXCEPT !.pc = "createDocument", !.fileType = fileType,
                                 !.documents = doc.documents,
                                 !.resources = doc.resources,
                                 !.calls = doc.calls + 1]
    /\ UNCHANGED <<coreVars, sb, acl, loop, chat>>

\* createDocument({...params, status: 'processing'}) resolves: the row exists
\* and the constant doc of the try block is bound to it
CreateDocumentResolves ==
    /\ doc.pc = "createDocument"
    /\ doc' = [doc EXCEPT !.pc = "fetch",
                          !.documents = Append(doc.documents,
                              [status |-> "processing", errorMessage |-> Null]),
                          !.created = Len(doc.documents) + 1]
    /\ UNCHANGED <<coreVars, sb, acl, loop, chat>>

CreateDocumentRejects ==
    /\ doc.pc = "createDocument"
    /\ doc' = Throw(doc, "create failed")
    /\ UNCHANGED <<coreVars, sb, acl, loop, chat>>

\* fetch(params.fileUrl).then(r => r.arrayBuffer())
FetchResolves ==
    /\ doc.pc = "fetch"
    /\ doc' = IF doc.fileType \in AwaitedParse
              THEN [doc EXCEPT !.pc = "parse"]
              ELSE IF doc.fileType \in DecodedInPlace
                   THEN [doc EXCEPT !.pc = "splitText", !.text = TRUE]
                   ELSE Throw(doc, UnsupportedFileType)
    /\ UNCHANGED <<coreVars, sb, acl, loop, chat>>

FetchRejects ==
    /\ doc.pc = "fetch"
    /\ doc' = Throw(doc, "fetch failed")
    /\ UNCHANGED <<coreVars, sb, acl, loop, chat>>

\* pdfParse or mammoth.extractRawText
ParseResolves ==
    /\ doc.pc = "parse"
    /\ doc' = [doc EXCEPT !.pc = "splitText", !.text = TRUE]
    /\ UNCHANGED <<coreVars, sb, acl, loop, chat>>

ParseRejects ==
    /\ doc.pc = "parse"
    /\ doc' = Throw(doc, "parse failed")
    /\ UNCHANGED <<coreVars, sb, acl, loop, chat>>

\* textSplitter.splitText(text); with no chunk the loop is skipped
SplitTextResolves ==
    /\ doc.pc = "splitText"
    /\ \E n \in 0..MaxChunks :
          doc' = [doc EXCEPT !.pc = IF n = 0 THEN "updateDocument" ELSE "createResource",
                             !.chunks = n, !.i = 0]
    /\ UNCHANGED <<coreVars, sb, acl, loop, chat>>

SplitTextRejects ==
    /\ doc.pc = "splitText"
    /\ doc' = Throw(doc, "split failed")
    /\ UNCHANGED <<coreVars, sb, acl, loop, chat>>

\* createResource for chunks[i], then i++
CreateResourceResolves ==
    /\ doc.pc = "createResource"
    /\ doc' = [doc EXCEPT !.pc = IF doc.i + 1 < doc.chunks
                                 THEN "createResource"
                                 ELSE "updateDocument",
                          !.i = doc.i + 1,
                          !.resources = doc.resources + 1]
    /\ UNCHANGED <<coreVars, sb, acl, loop, chat>>

CreateResourceRejects ==
    /\ doc.pc = "createResource"
    /\ doc' = Throw(doc, "createResource failed")
    /\ UNCHANGED <<coreVars, sb, acl, loop, chat>>

\* updateDocument(doc.id, {status: 'completed', metadata}) at the end of the
\* try block
UpdateCompletedResolves ==
    /\ doc.pc = "updateDocument"
    /\ doc' = [doc EXCEPT !.pc = "resolved",
                          !.documents[doc.created].status = "completed"]
    /\ UNCHANGED <<coreVars, sb, acl, loop, chat>>

UpdateCompletedRejects ==
    /\ doc.pc = "updateDocument"
    /\ doc' = Throw(doc, "update failed")
    /\ UNCHANGED <<coreVars, sb, acl, loop, chat>>

\* the catch block: the argument doc.id of updateDocument is evaluated first.
\* doc is a const of the try block, which the catch block is not part of, and
\* no enclosing scope declares the name: its read throws, updateDocument is
\* not called and the promise of processDocument rejects with that error
CatchRuns ==
    /\ doc.pc = "catch"
    /\ doc' = [doc EXCEPT !.pc = "rejected", !.thrown = ReferenceError]
    /\ UNCHANGED <<coreVars, sb, acl, loop, chat>>

NextDocument ==
    \/ ProcessDocumentCall
    \/ CreateDocumentResolves
    \/ CreateDocumentRejects
    \/ FetchResolves
    \/ FetchRejects
    \/ ParseResolves
    \/ ParseRejects
    \/ SplitTextResolves
    \/ SplitTextRejects
    \/ CreateResourceResolves
    \/ CreateResourceRejects
    \/ UpdateCompletedResolves
    \/ UpdateCompletedRejects
    \/ CatchRuns

SpecDocument == InitDocument /\ [][NextDocument]_vars

Finished(d) == d.pc \in {"resolved", "rejected"}

\* C30: the document is created with status 'processing'; when every step
\* succeeds it is 'completed'; when a step after the creation fails it is
\* 'failed' with the error's message and the call rejects with that error: no
\* document created by a finished call is 'processing'.
C30_StatusSettled ==
    (Finished(doc) /\ doc.created # 0) =>
        /\ doc.documents[doc.created].status # "processing"
        /\ doc.pc = "resolved" =>
              doc.documents[doc.created].status = "completed"
        /\ doc.pc = "rejected" =>
              /\ doc.documents[doc.created].status = "failed"
              /\ doc.documents[doc.created].errorMessage = doc.caught
              /\ doc.thrown = doc.caught

\* the parts of the claim the code does keep: a created document starts as
\* 'processing', and a call that resolves has set it to 'completed'
C30_CreatedProcessingThenCompleted ==
    /\ doc.pc = "fetch" => doc.documents[doc.created].status = "processing"
    /\ doc.pc = "resolved" => doc.documents[doc.created].status = "completed"

====
